---- MODULE Spec2Model ----
(***************************************************************************)
(* E-commerce product management: the Pricing Engine (discountCalculator, *)
(* taxCalculator), the Catalog Record (Product), the Catalog Client       *)
(* (APIService) and the orchestration (productManagement).                *)
(*                                                                         *)
(* Numbers.  A JavaScript number is modelled as an exact rational          *)
(* [n |-> numerator, d |-> denominator] in lowest terms with d > 0; the    *)
(* value NaN is [n |-> 0, d |-> 0] and a missing (undefined) field is      *)
(* [n |-> 0, d |-> -1].  Arithmetic is the real-number arithmetic the      *)
(* IEEE doubles of the program approximate; NaN propagates and every       *)
(* comparison with NaN is false, as in the program.                        *)
(*                                                                         *)
(* Strings.  A string is a sequence of one-character strings, so that      *)
(* toLowerCase acts character by character.                                *)
(***************************************************************************)
EXTENDS Integers, Sequences, FiniteSets, TLC

VARIABLES
  args,          \* function harness: the arguments of the call
  call,          \* function harness: the function applied last ("none" at first)
  ret,           \* function harness: the outcome of that call
  api,           \* the Catalog Client operation in progress
  requests,      \* the requests issued to the remote so far (URLs)
  pc,            \* productManagement: position in the function body
  productsData,  \* productManagement: const productsData (a one-element sequence once bound)
  products,      \* productManagement: const products (the Product instances)
  idx,           \* productManagement: index of the record the for-loop is at
  out,           \* the lines written with console.log
  errOut,        \* the lines written with console.error
  thrown         \* productManagement: the value caught by the catch clause

vars == <<args, call, ret, api, requests, pc, productsData, products, idx, out, errOut, thrown>>

-----------------------------------------------------------------------------
(* Bounds of the model *)

\* whole-number prices -1 .. MaxPrice are drawn next to the sample prices
MaxPrice == 2
\* whole-number discount percentages -1 .. MaxPct are drawn next to the samples
MaxPct == 1
\* longest batch of records a catalog response carries
MaxRecords == 2
\* numbers 0 .. MaxThrown are among the thrown values that are no Error objects
MaxThrown == 3

-----------------------------------------------------------------------------
(* JavaScript numbers *)

RECURSIVE GCD(_, _)
GCD(a, b) == IF b = 0 THEN a ELSE GCD(b, a % b)

Abs(i) == IF i < 0 THEN -i ELSE i

NaN == [n |-> 0, d |-> 0]
Undefined == [n |-> 0, d |-> -1]

\* the rational n/d (d > 0) in lowest terms
R(n, d) == LET g == GCD(Abs(n), d) IN [n |-> n \div g, d |-> d \div g]

\* ToNumber: undefined converts to NaN
ToNumber(x) == IF x.d < 1 THEN NaN ELSE x
IsNaN(x) == ToNumber(x) = NaN

\* the numerator of a over the least common denominator of a and b
Scaled(a, b) == a.n * (b.d \div GCD(a.d, b.d))
CommonDenominator(a, b) == (a.d \div GCD(a.d, b.d)) * b.d

Lt(x, y) == LET a == ToNumber(x)  b == ToNumber(y)
            IN  ~IsNaN(a) /\ ~IsNaN(b) /\ Scaled(a, b) < Scaled(b, a)
Gt(x, y) == Lt(y, x)
Le(x, y) == LET a == ToNumber(x)  b == ToNumber(y)
            IN  ~IsNaN(a) /\ ~IsNaN(b) /\ Scaled(a, b) <= Scaled(b, a)

Mul(x, y) == LET a == ToNumber(x)  b == ToNumber(y)
             IN  IF IsNaN(a) \/ IsNaN(b) THEN NaN ELSE R(a.n * b.n, a.d * b.d)
\* x / y; the program divides by the literal 100 only (0/0 is NaN, x/0 is not modelled)
Div(x, y) == LET a == ToNumber(x)  b == ToNumber(y)
             IN  IF IsNaN(a) \/ IsNaN(b) \/ b.n = 0 THEN NaN
                 ELSE IF b.n < 0 THEN R(-(a.n * b.d), a.d * (-b.n))
                 ELSE R(a.n * b.d, a.d * b.n)
Add(x, y) == LET a == ToNumber(x)  b == ToNumber(y)
             IN  IF IsNaN(a) \/ IsNaN(b) THEN NaN ELSE R(Scaled(a, b) + Scaled(b, a), CommonDenominator(a, b))
Sub(x, y) == LET a == ToNumber(x)  b == ToNumber(y)
             IN  IF IsNaN(a) \/ IsNaN(b) THEN NaN ELSE R(Scaled(a, b) - Scaled(b, a), CommonDenominator(a, b))

Zero == R(0, 1)
Hundred == R(100, 1)

-----------------------------------------------------------------------------
(* Strings *)

LowerLetters == <<"a","b","c","d","e","f","g","h","i","j","k","l","m",
                  "n","o","p","q","r","s","t","u","v","w","x","y","z">>
UpperLetters == <<"A","B","C","D","E","F","G","H","I","J","K","L","M",
                  "N","O","P","Q","R","S","T","U","V","W","X","Y","Z">>

\* String.prototype.toLowerCase on one character: A-Z map to a-z, all else is kept
LowerChar(c) == IF \E i \in DOMAIN UpperLetters : UpperLetters[i] = c
                THEN LowerLetters[CHOOSE i \in DOMAIN UpperLetters : UpperLetters[i] = c]
                ELSE c
toLowerCase(s) == [i \in DOMAIN s |-> LowerChar(s[i])]

-----------------------------------------------------------------------------
(* Outcomes of a call: a returned value or a thrown error *)

Return(v) == [kind |-> "return", value |-> v]
Throw(e) == [kind |-> "throw", error |-> e]
Threw(r) == r.kind = "throw"

\* new Error(message): a plain Error carries no statusCode property
Error(message) == [name |-> "Error", message |-> message, statusCode |-> {}]

-----------------------------------------------------------------------------
(* utilities/discountCalculator *)

calculateDiscountAmount_NoUpper(price, discountPercentage) ==
  IF Lt(price, Zero) THEN Throw(Error(<<"Price cannot be negative">>))
  ELSE IF Lt(discountPercentage, Zero)
  THEN Throw(Error(<<"Discount percentage must be between 0 and 100">>))
  ELSE Return(Mul(price, Div(discountPercentage, Hundred)))

calculateDiscountAmount(price, discountPercentage) ==
  IF Lt(price, Zero) THEN Throw(Error(<<"Price cannot be negative">>))
  ELSE IF Lt(discountPercentage, Zero) \/ Gt(discountPercentage, Hundred)
  THEN Throw(Error(<<"Discount percentage must be between 0 and 100">>))
  ELSE Return(Mul(price, Div(discountPercentage, Hundred)))

calculateFinalPrice_Unvalidated(price, discountPercentage) ==
  Return(Sub(price, Mul(price, Div(discountPercentage, Hundred))))

calculateFinalPrice(price, discountPercentage) ==
  LET discountAmount == calculateDiscountAmount(price, discountPercentage)
  IN  IF Threw(discountAmount) THEN discountAmount
      ELSE Return(Sub(price, discountAmount.value))

-----------------------------------------------------------------------------
(* utilities/taxCalculator *)

STANDARD_TAX_RATE == R(475, 10000)
GROCERY_TAX_RATE == R(3, 100)
GROCERY_CATEGORY == <<"g","r","o","c","e","r","i","e","s">>

calculateTax_CaseSensitive(price, category) ==
  IF Lt(price, Zero) THEN Throw(Error(<<"Price cannot be negative">>))
  ELSE LET taxRate == IF category = GROCERY_CATEGORY
                      THEN GROCERY_TAX_RATE ELSE STANDARD_TAX_RATE
       IN  Return(Mul(price, taxRate))

calculateTax(price, category) ==
  IF Lt(price, Zero) THEN Throw(Error(<<"Price cannot be negative">>))
  ELSE LET taxRate == IF toLowerCase(category) = GROCERY_CATEGORY
                      THEN GROCERY_TAX_RATE ELSE STANDARD_TAX_RATE
       IN  Return(Mul(price, taxRate))

calculatePriceWithTax_TaxOnly(price, category) ==
  calculateTax(price, category)

calculatePriceWithTax_SubtractingTax(price, category) ==
  LET taxAmount == calculateTax(price, category)
  IN  IF Threw(taxAmount) THEN taxAmount
      ELSE Return(Sub(price, taxAmount.value))

calculatePriceWithTax(price, category) ==
  LET taxAmount == calculateTax(price, category)
  IN  IF Threw(taxAmount) THEN taxAmount
      ELSE Return(Add(price, taxAmount.value))

getTaxRate_CaseSensitive(category) ==
  Return(IF category = GROCERY_CATEGORY THEN GROCERY_TAX_RATE ELSE STANDARD_TAX_RATE)

getTaxRate(category) ==
  Return(IF toLowerCase(category) = GROCERY_CATEGORY
         THEN GROCERY_TAX_RATE ELSE STANDARD_TAX_RATE)

-----------------------------------------------------------------------------
(* models/Product *)

\* constructor(data): a null record has no properties to read (TypeError);
\* every field is copied as it is, without validation
Product(data) ==
  IF data.isNull
  THEN Throw([name |-> "TypeError",
              message |-> <<"Cannot read properties of null (reading 'id')">>,
              statusCode |-> {}])
  ELSE Return([id |-> data.id, price |-> data.price,
               discountPercentage |-> data.discountPercentage,
               category |-> data.category])

getPriceWithDiscount_Delegating(this) ==
  calculateFinalPrice(this.price, this.discountPercentage)

getPriceWithDiscount(this) ==
  LET discountAmount == Mul(this.price, Div(this.discountPercentage, Hundred))
  IN  Return(Sub(this.price, discountAmount))

-----------------------------------------------------------------------------
(* utilities/errorHandler: the error classes *)

\* the optional statusCode is a set: {} when the property is absent
APIError(message, statusCode) ==
  [name |-> "APIError", message |-> message, statusCode |-> statusCode]

NetworkError(message) ==
  [name |-> "NetworkError", message |-> message, statusCode |-> {}]

\* the errors the runtime raises
TypeError(message) == [name |-> "TypeError", message |-> message, statusCode |-> {}]
SyntaxError(message) == [name |-> "SyntaxError", message |-> message, statusCode |-> {}]

-----------------------------------------------------------------------------
(* The remote catalog, as the Catalog Client sees it *)

\* Number-to-string conversion of a non-negative integer in a template literal
RECURSIVE NumToString(_)
NumToString(i) ==
  LET digit == <<"0","1","2","3","4","5","6","7","8","9">>[(i % 10) + 1]
  IN  IF i < 10 THEN <<digit>> ELSE Append(NumToString(i \div 10), digit)

\* encodeURIComponent on one character: letters, digits and - _ . ! ~ * ' ( )
\* are kept, the other characters of the model's queries are percent-encoded
EncodeChar(c) == IF c = " " THEN <<"%", "2", "0">>
                 ELSE IF c = "&" THEN <<"%", "2", "6">>
                 ELSE <<c>>
RECURSIVE encodeURIComponent(_)
encodeURIComponent(s) ==
  IF s = <<>> THEN <<>> ELSE EncodeChar(Head(s)) \o encodeURIComponent(Tail(s))

\* Response.ok: the status is in the range 200-299
Ok(response) == response.status >= 200 /\ response.status <= 299

\* property read data.products: a TypeError on null, undefined (the empty
\* sequence) when the object has no such property, else <<the property>>
GetProducts(data) ==
  IF data.isNull
  THEN Throw(TypeError(<<"Cannot read properties of null (reading 'products')">>))
  ELSE IF "products" \in DOMAIN data THEN Return(<<data.products>>)
  ELSE Return(<<>>)

-----------------------------------------------------------------------------
(* services/apiService                                                     *)
(* Each method is given net, the outcome of its fetch() call: a thrown     *)
(* TypeError when the request did not reach the service, else the returned *)
(* response [status, statusText, json], json being the outcome of          *)
(* response.json().  The methods return data.products as an optional       *)
(* value (<<>> is undefined).                                              *)

BASE_URL == <<"https://dummyjson.com">>

NETWORK_MESSAGE ==
  <<"Network connection failed. Please check your internet connection.">>

fetchAllProducts(baseUrl, limit, net) ==
  LET try == IF Threw(net) THEN net
             ELSE LET response == net.value
                  IN  IF ~Ok(response)
                      THEN Throw(APIError(<<"Failed to fetch products: ">> \o response.statusText,
                                          {response.status}))
                      ELSE IF Threw(response.json) THEN response.json
                      ELSE GetProducts(response.json.value)
  IN  IF ~Threw(try) THEN try
      ELSE IF try.error.name = "APIError" THEN try
      ELSE IF try.error.name = "TypeError" THEN Throw(NetworkError(NETWORK_MESSAGE))
      ELSE Throw(APIError(<<"An unexpected error occurred while fetching products">>, {}))

fetchProductById_No404(baseUrl, id, net) ==
  LET try == IF Threw(net) THEN net
             ELSE LET response == net.value
                  IN  IF ~Ok(response)
                      THEN Throw(APIError(<<"Failed to fetch product: ">> \o response.statusText,
                                          {response.status}))
                      ELSE IF Threw(response.json) THEN response.json
                      ELSE Return(<<response.json.value>>)
  IN  IF ~Threw(try) THEN try
      ELSE IF try.error.name = "APIError" THEN try
      ELSE IF try.error.name = "TypeError" THEN Throw(NetworkError(NETWORK_MESSAGE))
      ELSE Throw(APIError(<<"An unexpected error occurred while fetching the product">>, {}))

fetchProductById(baseUrl, id, net) ==
  LET try == IF Threw(net) THEN net
             ELSE LET response == net.value
                  IN  IF ~Ok(response)
                      THEN IF response.status = 404
                           THEN Throw(APIError(<<"Product with ID ">> \o NumToString(id)
                                               \o <<" not found">>, {404}))
                           ELSE Throw(APIError(<<"Failed to fetch product: ">>
                                               \o response.statusText, {response.status}))
                      ELSE IF Threw(response.json) THEN response.json
                      ELSE Return(<<response.json.value>>)
  IN  IF ~Threw(try) THEN try
      ELSE IF try.error.name = "APIError" THEN try
      ELSE IF try.error.name = "TypeError" THEN Throw(NetworkError(NETWORK_MESSAGE))
      ELSE Throw(APIError(<<"An unexpected error occurred while fetching the product">>, {}))

fetchProductsByCategory(baseUrl, category, limit, net) ==
  LET try == IF Threw(net) THEN net
             ELSE LET response == net.value
                  IN  IF ~Ok(response)
                      THEN IF response.status = 404
                           THEN Throw(APIError(<<"Category '">> \o category
                                               \o <<"' not found">>, {404}))
                           ELSE Throw(APIError(<<"Failed to fetch products by category: ">>
                                               \o response.statusText, {response.status}))
                      ELSE IF Threw(response.json) THEN response.json
                      ELSE GetProducts(response.json.value)
  IN  IF ~Threw(try) THEN try
      ELSE IF try.error.name = "APIError" THEN try
      ELSE IF try.error.name = "TypeError" THEN Throw(NetworkError(NETWORK_MESSAGE))
      ELSE Throw(APIError(
             <<"An unexpected error occurred while fetching products by category">>, {}))

searchProducts(baseUrl, query, limit, net) ==
  LET try == IF Threw(net) THEN net
             ELSE LET response == net.value
                  IN  IF ~Ok(response)
                      THEN Throw(APIError(<<"Failed to search products: ">> \o response.statusText,
                                          {response.status}))
                      ELSE IF Threw(response.json) THEN response.json
                      ELSE GetProducts(response.json.value)
  IN  IF ~Threw(try) THEN try
      ELSE IF try.error.name = "APIError" THEN try
      ELSE IF try.error.name = "TypeError" THEN Throw(NetworkError(NETWORK_MESSAGE))
      ELSE Throw(APIError(<<"An unexpected error occurred while searching products">>, {}))

\* the URL each method requests
UrlAllProducts(baseUrl, limit) ==
  baseUrl \o <<"/products?limit=">> \o NumToString(limit)
UrlProductById(baseUrl, id) ==
  baseUrl \o <<"/products/">> \o NumToString(id)
UrlProductsByCategory(baseUrl, category, limit) ==
  baseUrl \o <<"/products/category/">> \o category \o <<"?limit=">> \o NumToString(limit)
UrlSearchProducts(baseUrl, query, limit) ==
  baseUrl \o <<"/products/search?q=">> \o encodeURIComponent(query)
          \o <<"&limit=">> \o NumToString(limit)

-----------------------------------------------------------------------------
(* Console output *)

\* one console.log line: its label, the record it is about (0: none) and the
\* values interpolated into it
Line(label, k, val) == [line |-> label, k |-> k, val |-> val]

\* Number.prototype.toFixed(2): a TypeError when the receiver is undefined,
\* "NaN" for NaN, else the nearest multiple of 1/100 (of two equally near
\* ones, the one of larger magnitude)
toFixed2(x) ==
  IF x = Undefined
  THEN Throw(TypeError(<<"Cannot read properties of undefined (reading 'toFixed')">>))
  ELSE IF IsNaN(x) THEN Return(NaN)
  ELSE LET a == Abs(x.n) * 100
           q == a \div x.d
           c == IF 2 * (a % x.d) >= x.d THEN q + 1 ELSE q
       IN  Return(R(IF x.n < 0 THEN -c ELSE c, 100))

displayDetails_Validating(this, k) ==
  LET head == << Line("=", k, <<>>), Line("Product", k, <<>>), Line("=", k, <<>>),
                 Line("ID", k, <<this.id>>), Line("Brand", k, <<>>),
                 Line("Category", k, <<this.category>>), Line("Description", k, <<>>) >>
      price == toFixed2(this.price)
      after == calculateFinalPrice(this.price, this.discountPercentage)
  IN  IF Threw(price) THEN [out |-> head, result |-> price]
      ELSE IF Threw(after)
      THEN [out |-> head \o << Line("Price", k, <<price.value>>),
                               Line("Discount", k, <<this.discountPercentage>>) >>,
            result |-> after]
      ELSE [out |-> head \o
                    << Line("Price", k, <<price.value>>),
                       Line("Discount", k, <<this.discountPercentage>>),
                       Line("Price After Discount", k, <<toFixed2(after.value).value>>),
                       Line("Rating", k, <<>>), Line("Stock", k, <<>>),
                       Line("=", k, <<>>) >>,
            result |-> Return(Undefined)]

\* Product.displayDetails(): the lines it writes and how it ends.  title, brand,
\* description, rating and stock are free text the program only prints; their
\* lines are kept, their values are not modelled.
displayDetails(this, k) ==
  LET head == << Line("=", k, <<>>), Line("Product", k, <<>>), Line("=", k, <<>>),
                 Line("ID", k, <<this.id>>), Line("Brand", k, <<>>),
                 Line("Category", k, <<this.category>>), Line("Description", k, <<>>) >>
      price == toFixed2(this.price)
      after == toFixed2(getPriceWithDiscount(this).value)
  IN  IF Threw(price) THEN [out |-> head, result |-> price]
      ELSE [out |-> head \o
                    << Line("Price", k, <<price.value>>),
                       Line("Discount", k, <<this.discountPercentage>>),
                       Line("Price After Discount", k, <<after.value>>),
                       Line("Rating", k, <<>>), Line("Stock", k, <<>>),
                       Line("=", k, <<>>) >>,
            result |-> Return(Undefined)]

\* a thrown value that is no Error object
NonError(type, text, number) ==
  [name |-> "NonError", type |-> type, text |-> text, number |-> number]

\* String(value) of such a value
String(v) ==
  CASE v.type = "string" -> v.text
    [] v.type = "number" -> NumToString(v.number)
    [] v.type = "null" -> <<"null">>
    [] v.type = "undefined" -> <<"undefined">>
    [] v.type = "object" -> <<"[object Object]">>

\* utilities/errorHandler handleError: the console.error lines it writes
IsError(e) == e.name \in {"Error", "TypeError", "SyntaxError", "APIError", "NetworkError"}

handleError_GenericFirst(error) ==
  IF IsError(error)
  THEN << [tag |-> "Error", status |-> {}, message |-> error.message] >>
  ELSE IF error.name = "APIError"
  THEN << [tag |-> "API Error",
           status |-> {c \in error.statusCode : c # 0},
           message |-> error.message] >>
  ELSE IF error.name = "NetworkError"
  THEN << [tag |-> "Network Error", status |-> {}, message |-> error.message] >>
  ELSE << [tag |-> "Unknown Error", status |-> {}, message |-> String(error)] >>

\* the status is interpolated when error.statusCode is truthy (present and not 0)
handleError(error) ==
  IF error.name = "APIError"
  THEN << [tag |-> "API Error",
           status |-> {c \in error.statusCode : c # 0},
           message |-> error.message] >>
  ELSE IF error.name = "NetworkError"
  THEN << [tag |-> "Network Error", status |-> {}, message |-> error.message] >>
  ELSE IF IsError(error)
  THEN << [tag |-> "Error", status |-> {}, message |-> error.message] >>
  ELSE << [tag |-> "Unknown Error", status |-> {}, message |-> String(error)] >>

-----------------------------------------------------------------------------
(* index: productManagement, the body of the for-loop after displayDetails *)

priceRecord_TaxOnOriginalPrice(product, k) ==
  LET discountAmount == calculateDiscountAmount(product.price, product.discountPercentage)
      finalPrice == calculateFinalPrice(product.price, product.discountPercentage)
      first == << Line("Discount Savings", k, <<toFixed2(discountAmount.value).value>>),
                  Line("Final Price (after discount)", k, <<toFixed2(finalPrice.value).value>>) >>
      taxRate == getTaxRate(product.category)
      taxAmount == calculateTax(product.price, product.category)
      priceWithTax == calculatePriceWithTax(product.price, product.category)
  IN  IF Threw(discountAmount) THEN [out |-> <<>>, result |-> discountAmount]
      ELSE IF Threw(finalPrice) THEN [out |-> <<>>, result |-> finalPrice]
      ELSE IF Threw(taxAmount) THEN [out |-> first, result |-> taxAmount]
      ELSE IF Threw(priceWithTax) THEN [out |-> first, result |-> priceWithTax]
      ELSE [out |-> first \o
                    << Line("Tax Information", k, <<>>),
                       Line("Category", k, <<product.category>>),
                       Line("Tax Rate", k, <<toFixed2(Mul(taxRate.value, Hundred)).value>>),
                       Line("Tax Amount", k, <<toFixed2(taxAmount.value).value>>),
                       Line("Total Price (with tax)", k, <<toFixed2(priceWithTax.value).value>>),
                       Line("-", k, <<>>) >>,
            result |-> Return(Undefined)]

priceRecord(product, k) ==
  LET discountAmount == calculateDiscountAmount(product.price, product.discountPercentage)
      finalPrice == calculateFinalPrice(product.price, product.discountPercentage)
      first == << Line("Discount Savings", k, <<toFixed2(discountAmount.value).value>>),
                  Line("Final Price (after discount)", k, <<toFixed2(finalPrice.value).value>>) >>
      taxRate == getTaxRate(product.category)
      taxAmount == calculateTax(finalPrice.value, product.category)
      priceWithTax == calculatePriceWithTax(finalPrice.value, product.category)
  IN  IF Threw(discountAmount) THEN [out |-> <<>>, result |-> discountAmount]
      ELSE IF Threw(finalPrice) THEN [out |-> <<>>, result |-> finalPrice]
      ELSE IF Threw(taxAmount) THEN [out |-> first, result |-> taxAmount]
      ELSE IF Threw(priceWithTax) THEN [out |-> first, result |-> priceWithTax]
      ELSE [out |-> first \o
                    << Line("Tax Information", k, <<>>),
                       Line("Category", k, <<product.category>>),
                       Line("Tax Rate", k, <<toFixed2(Mul(taxRate.value, Hundred)).value>>),
                       Line("Tax Amount", k, <<toFixed2(taxAmount.value).value>>),
                       Line("Total Price (with tax)", k, <<toFixed2(priceWithTax.value).value>>),
                       Line("-", k, <<>>) >>,
            result |-> Return(Undefined)]

\* productsData.map(data => new Product(data)): a TypeError when productsData is
\* undefined, the first failing construction otherwise, else the instances
RECURSIVE MapProducts(_)
MapProducts(batch) ==
  IF batch = <<>> THEN Return(<<>>)
  ELSE LET first == Product(Head(batch))
           rest == MapProducts(Tail(batch))
       IN  IF Threw(first) THEN first
           ELSE IF Threw(rest) THEN rest
           ELSE Return(<<first.value>> \o rest.value)

constructProducts(data) ==
  IF data = <<>>
  THEN Throw(TypeError(<<"Cannot read properties of undefined (reading 'map')">>))
  ELSE MapProducts(data[1])

-----------------------------------------------------------------------------
(* Inputs *)

\* the maximum number of Catalog Client calls of one run of the client harness
MaxCalls == 2

UpperChar(c) == IF \E i \in DOMAIN LowerLetters : LowerLetters[i] = c
                THEN UpperLetters[CHOOSE i \in DOMAIN LowerLetters : LowerLetters[i] = c]
                ELSE c

\* every spelling of s that differs from it in letter case only
CaseVariations(s) ==
  { [i \in DOMAIN s |-> IF m[i] THEN UpperChar(s[i]) ELSE s[i]] : m \in [DOMAIN s -> BOOLEAN] }

Electronics == <<"e","l","e","c","t","r","o","n","i","c","s">>
UnknownCategory == <<"u","n","k","n","o","w","n","-","c","a","t","e","g","o","r","y">>
OtherCategories ==
  { Electronics, UnknownCategory, <<>>, <<"g","r","o","c","e","r","y">>, <<"g","r","o","c","e","r","i","e","s"," ">>, <<"l","a","p","t","o","p","s">> }
Categories == CaseVariations(GROCERY_CATEGORY) \cup OtherCategories

Prices == { R(n, 1) : n \in -1..MaxPrice } \cup { R(50, 1), R(100, 1), R(999, 100), NaN }
Pcts == { R(n, 1) : n \in -1..MaxPct }
        \cup { R(20, 1), R(25, 2), R(100, 1), R(101, 1), NaN }

\* every price with every discount on a few categories, and every category
\* (each case variation of "groceries" among them) on a few prices
FewCategories == OtherCategories \cup { GROCERY_CATEGORY, <<"G","r","o","c","e","r","i","e","s">>, <<"G","R","O","C","E","R","I","E","S">> }
FewPrices == { R(-1, 1), R(100, 1), R(999, 100) }
ArgsSet == [price : Prices, discountPercentage : Pcts, category : FewCategories]
           \cup [price : FewPrices, discountPercentage : {R(20, 1)}, category : Categories]

\* raw records of a catalog response (JSON): well-formed ones, ones with an
\* out-of-domain price or discount, one without a price, and null
JsonNull == [isNull |-> TRUE]
RawRecord(id, price, pct, category) ==
  [isNull |-> FALSE, id |-> id, price |-> price,
   discountPercentage |-> pct, category |-> category]
Records ==
  { RawRecord(1, R(100, 1), R(20, 1), Electronics),
    RawRecord(2, R(50, 1), Zero, <<"G","r","o","c","e","r","i","e","s">>),
    RawRecord(3, R(-1, 1), R(10, 1), Electronics),
    RawRecord(4, R(999, 100), R(101, 1), GROCERY_CATEGORY),
    RawRecord(5, Undefined, R(10, 1), Electronics),
    RawRecord(6, R(50, 1), Zero, GROCERY_CATEGORY),
    JsonNull }
Batches == UNION { [1..n -> Records] : n \in 0..MaxRecords }

\* parsed response bodies: null, an object without products, a products
\* object, a single raw record
JsonBodies == { JsonNull, [isNull |-> FALSE] }
              \cup { [isNull |-> FALSE, products |-> b] : b \in Batches }
              \cup Records

JsonOutcomes ==
  { Throw(SyntaxError(<<"Unexpected token < in JSON at position 0">>)) }
  \cup { Return(b) : b \in JsonBodies }

Responses ==
  { [status |-> 200, statusText |-> <<"OK">>, json |-> j] : j \in JsonOutcomes }
  \cup { [status |-> st[1], statusText |-> st[2], json |-> j] :
           st \in { <<404, <<"Not Found">> >>, <<500, <<"Internal Server Error">> >> },
           j \in { Throw(SyntaxError(<<"Unexpected token < in JSON at position 0">>)),
                   Return([isNull |-> FALSE]) } }

\* what fetch() can do: reject with a TypeError (the request did not reach the
\* service) or resolve with a response
NetOutcomes == { Throw(TypeError(<<"fetch failed">>)) } \cup { Return(r) : r \in Responses }

Limits == {5, 10}
Ids == {1, 12}
FetchCategories == { <<"l","a","p","t","o","p","s">>, GROCERY_CATEGORY }
Queries == { <<"p","h","o","n","e">>, <<"p","h","o","n","e"," ","c","a","s","e">> }

-----------------------------------------------------------------------------
(* Initial states *)

Pending == [kind |-> "pending"]

ApiIdle == [op |-> "none", id |-> 0, text |-> <<>>, limit |-> 0,
            pc |-> "idle", net |-> Pending, result |-> Pending]

HarnessIdle ==
  /\ args = [price |-> Zero, discountPercentage |-> Zero, category |-> <<>>]
  /\ call = "none"
  /\ ret = Pending

ClientIdle ==
  /\ api = ApiIdle
  /\ requests = <<>>

OrchestrationInit ==
  /\ pc = "start"
  /\ productsData = <<>>
  /\ products = <<>>
  /\ idx = 0
  /\ out = <<>>
  /\ errOut = <<>>
  /\ thrown = <<>>

\* the program: productManagement() is about to run
Init == HarnessIdle /\ ClientIdle /\ OrchestrationInit

\* the pricing functions applied to drawn arguments
InitPricing ==
  /\ args \in ArgsSet
  /\ call = "none"
  /\ ret = Pending
  /\ ClientIdle /\ OrchestrationInit

\* the Catalog Client operations called on their own
InitFetch == HarnessIdle /\ ClientIdle /\ OrchestrationInit

-----------------------------------------------------------------------------
(* Pricing harness: one action per pricing function *)

clientVars == <<api, requests>>
orchestrationVars == <<pc, productsData, products, idx, out, errOut, thrown>>
harnessVars == <<args, call, ret>>

CallCalculateDiscountAmount ==
  /\ call' = "calculateDiscountAmount"
  /\ ret' = calculateDiscountAmount(args.price, args.discountPercentage)
  /\ UNCHANGED <<args, clientVars, orchestrationVars>>

CallCalculateFinalPrice ==
  /\ call' = "calculateFinalPrice"
  /\ ret' = calculateFinalPrice(args.price, args.discountPercentage)
  /\ UNCHANGED <<args, clientVars, orchestrationVars>>

CallGetTaxRate ==
  /\ call' = "getTaxRate"
  /\ ret' = getTaxRate(args.category)
  /\ UNCHANGED <<args, clientVars, orchestrationVars>>

CallCalculateTax ==
  /\ call' = "calculateTax"
  /\ ret' = calculateTax(args.price, args.category)
  /\ UNCHANGED <<args, clientVars, orchestrationVars>>

CallCalculatePriceWithTax ==
  /\ call' = "calculatePriceWithTax"
  /\ ret' = calculatePriceWithTax(args.price, args.category)
  /\ UNCHANGED <<args, clientVars, orchestrationVars>>

\* new Product(data).getPriceWithDiscount() on a record holding the arguments
CallGetPriceWithDiscount ==
  /\ call' = "getPriceWithDiscount"
  /\ ret' = getPriceWithDiscount(
              Product(RawRecord(1, args.price, args.discountPercentage, args.category)).value)
  /\ UNCHANGED <<args, clientVars, orchestrationVars>>

NextPricing ==
  \/ CallCalculateDiscountAmount
  \/ CallCalculateFinalPrice
  \/ CallGetTaxRate
  \/ CallCalculateTax
  \/ CallCalculatePriceWithTax
  \/ CallGetPriceWithDiscount

SpecPricing == InitPricing /\ [][NextPricing]_vars

-----------------------------------------------------------------------------
(* Error handler harness: handleError applied to a drawn thrown value *)

ErrorMessages ==
  { <<"Price cannot be negative">>,
    <<"Discount percentage must be between 0 and 100">>,
    <<"Failed to fetch products: ", "Not Found">>,
    <<"An unexpected error occurred while fetching products">>,
    NETWORK_MESSAGE,
    <<"Cannot read properties of undefined (reading 'map')">>,
    <<>> }

ThrownValues ==
  { APIError(m, c) : m \in ErrorMessages, c \in { {}, {404}, {500} } }
  \cup { NetworkError(m) : m \in ErrorMessages }
  \cup { Error(m) : m \in ErrorMessages }
  \cup { TypeError(m) : m \in ErrorMessages }
  \cup { SyntaxError(m) : m \in ErrorMessages }
  \cup { NonError("string", m, 0) : m \in ErrorMessages }
  \cup { NonError("number", <<>>, i) : i \in 0..MaxThrown }
  \cup { NonError(t, <<>>, 0) : t \in {"null", "undefined", "object"} }

InitErrors ==
  /\ args \in ThrownValues
  /\ call = "none"
  /\ ret = Pending
  /\ ClientIdle /\ OrchestrationInit

CallHandleError ==
  /\ call = "none"
  /\ call' = "handleError"
  /\ errOut' = errOut \o handleError(args)
  /\ ret' = Return(Undefined)
  /\ UNCHANGED <<args, clientVars, pc, productsData, products, idx, out, thrown>>

NextErrors == CallHandleError

SpecErrors == InitErrors /\ [][NextErrors]_vars

-----------------------------------------------------------------------------
(* Catalog Client: a call issues its request and awaits fetch(); Respond is   *)
(* the rest of the method, run when the remote (or the transport) has answered *)

Issue(op, id, text, limit, url) ==
  /\ api' = [op |-> op, id |-> id, text |-> text, limit |-> limit,
             pc |-> "awaitFetch", net |-> Pending, result |-> Pending]
  /\ requests' = Append(requests, url)

CanCall == api.pc \in {"idle", "settled"} /\ Len(requests) < MaxCalls

CallFetchAllProducts ==
  \E limit \in Limits :
    /\ CanCall
    /\ Issue("fetchAllProducts", 0, <<>>, limit, UrlAllProducts(BASE_URL, limit))
    /\ UNCHANGED <<harnessVars, orchestrationVars>>

CallFetchProductById ==
  \E id \in Ids :
    /\ CanCall
    /\ Issue("fetchProductById", id, <<>>, 0, UrlProductById(BASE_URL, id))
    /\ UNCHANGED <<harnessVars, orchestrationVars>>

CallFetchProductsByCategory ==
  \E category \in FetchCategories :
    /\ CanCall
    /\ Issue("fetchProductsByCategory", 0, category, 10,
             UrlProductsByCategory(BASE_URL, category, 10))
    /\ UNCHANGED <<harnessVars, orchestrationVars>>

CallSearchProducts ==
  \E query \in Queries :
    /\ CanCall
    /\ Issue("searchProducts", 0, query, 10, UrlSearchProducts(BASE_URL, query, 10))
    /\ UNCHANGED <<harnessVars, orchestrationVars>>

\* the method in progress, continued with the outcome of its fetch()
Perform(a, net) ==
  CASE a.op = "fetchAllProducts" -> fetchAllProducts(BASE_URL, a.limit, net)
    [] a.op = "fetchProductById" -> fetchProductById(BASE_URL, a.id, net)
    [] a.op = "fetchProductsByCategory" ->
         fetchProductsByCategory(BASE_URL, a.text, a.limit, net)
    [] a.op = "searchProducts" -> searchProducts(BASE_URL, a.text, a.limit, net)

Respond_Retrying ==
  \E net \in NetOutcomes :
    /\ api.pc = "awaitFetch"
    /\ IF Threw(net) \/ ~Ok(net.value)
       THEN /\ requests' = Append(requests, requests[Len(requests)])
            /\ UNCHANGED api
       ELSE /\ api' = [api EXCEPT !.pc = "settled", !.net = net,
                                  !.result = Perform(api, net)]
            /\ UNCHANGED requests
    /\ UNCHANGED <<harnessVars, orchestrationVars>>

Respond ==
  \E net \in NetOutcomes :
    /\ api.pc = "awaitFetch"
    /\ api' = [api EXCEPT !.pc = "settled", !.net = net, !.result = Perform(api, net)]
    /\ UNCHANGED <<requests, harnessVars, orchestrationVars>>

NextFetch ==
  \/ CallFetchAllProducts
  \/ CallFetchProductById
  \/ CallFetchProductsByCategory
  \/ CallSearchProducts
  \/ Respond

SpecFetch == InitFetch /\ [][NextFetch]_vars

-----------------------------------------------------------------------------
(* index: productManagement *)

\* lines 12-24: the header, then apiService.fetchAllProducts(5) is called and awaited
PM_Start ==
  /\ pc = "start"
  /\ out' = out \o << Line("=", 0, <<>>), Line("E-COMMERCE PRODUCT MANAGEMENT SYSTEM", 0, <<>>),
                      Line("=", 0, <<>>), Line("Fetching products from API...", 0, <<>>) >>
  /\ Issue("fetchAllProducts", 0, <<>>, 5, UrlAllProducts(BASE_URL, 5))
  /\ pc' = "await"
  /\ UNCHANGED <<harnessVars, productsData, products, idx, errOut, thrown>>

\* lines 24-30: the await ends; the records are wrapped and counted
PM_Resume ==
  /\ pc = "await"
  /\ api.pc = "settled"
  /\ IF Threw(api.result)
     THEN /\ thrown' = <<api.result.error>>
          /\ pc' = "catch"
          /\ UNCHANGED <<productsData, products, idx, out>>
     ELSE LET built == constructProducts(api.result.value)
          IN  /\ productsData' = api.result.value
              /\ IF Threw(built)
                 THEN /\ thrown' = <<built.error>>
                      /\ pc' = "catch"
                      /\ UNCHANGED <<products, idx, out>>
                 ELSE /\ products' = built.value
                      /\ out' = Append(out, Line("Successfully fetched", 0,
                                                 <<Len(built.value)>>))
                      /\ idx' = 1
                      /\ pc' = IF built.value = <<>> THEN "done" ELSE "display"
                      /\ UNCHANGED thrown
  /\ UNCHANGED <<harnessVars, clientVars, errOut>>

\* line 35: product.displayDetails()
PM_Display ==
  /\ pc = "display"
  /\ LET shown == displayDetails(products[idx], idx)
     IN  /\ out' = out \o shown.out
         /\ IF Threw(shown.result)
            THEN thrown' = <<shown.result.error>> /\ pc' = "catch"
            ELSE pc' = "price" /\ UNCHANGED thrown
  /\ UNCHANGED <<harnessVars, clientVars, productsData, products, idx, errOut>>

PM_Price_SkippingRecord ==
  /\ pc = "price"
  /\ LET priced == priceRecord(products[idx], idx)
     IN  /\ out' = out \o priced.out
         /\ idx' = idx + 1
         /\ pc' = IF idx = Len(products) THEN "done" ELSE "display"
         /\ UNCHANGED thrown
  /\ UNCHANGED <<harnessVars, clientVars, productsData, products, errOut>>

\* lines 38-74: the pricing of the record, then the next iteration
PM_Price ==
  /\ pc = "price"
  /\ LET priced == priceRecord(products[idx], idx)
     IN  /\ out' = out \o priced.out
         /\ IF Threw(priced.result)
            THEN thrown' = <<priced.result.error>> /\ pc' = "catch" /\ UNCHANGED idx
            ELSE /\ idx' = idx + 1
                 /\ pc' = IF idx = Len(products) THEN "done" ELSE "display"
                 /\ UNCHANGED thrown
  /\ UNCHANGED <<harnessVars, clientVars, productsData, products, errOut>>

\* lines 77-80: catch (error) { handleError(error) }
PM_Catch ==
  /\ pc = "catch"
  /\ errOut' = errOut \o handleError(thrown[1])
  /\ pc' = "done"
  /\ UNCHANGED <<harnessVars, clientVars, productsData, products, idx, out, thrown>>

Next ==
  \/ PM_Start
  \/ Respond
  \/ PM_Resume
  \/ PM_Display
  \/ PM_Price
  \/ PM_Catch

Spec == Init /\ [][Next]_vars

\* a session: Catalog Client operations called on their own, one at a time,
\* and then one run of productManagement
NextSession ==
  \/ pc = "start" /\ CallFetchAllProducts
  \/ pc = "start" /\ CallFetchProductById
  \/ pc = "start" /\ CallFetchProductsByCategory
  \/ pc = "start" /\ CallSearchProducts
  \/ api.pc # "awaitFetch" /\ PM_Start
  \/ Respond
  \/ PM_Resume
  \/ PM_Display
  \/ PM_Price
  \/ PM_Catch

SpecSession == InitFetch /\ [][NextSession]_vars

-----------------------------------------------------------------------------
(* Properties of the Pricing Engine and the Catalog Record (SpecPricing) *)

\* InvalidInput: the plain Error the pricing functions throw
InvalidInput(r) == Threw(r) /\ r.error.name = "Error"

OutOfDomain(price, pct) == Lt(price, Zero) \/ Lt(pct, Zero) \/ Gt(pct, Hundred)

IsCaseVariationOf(s, literal) ==
  /\ Len(s) = Len(literal)
  /\ \A i \in 1..Len(literal) : s[i] = literal[i] \/ s[i] = UpperChar(literal[i])

\* C1: calculateDiscountAmount(price, pct) fails with InvalidInput exactly when
\* price < 0 or pct < 0 or pct > 100; every other input (pct = 0 and pct = 100
\* included) returns price * pct / 100, so pct = 0 yields 0 and pct = 100
\* yields price.
C1_DiscountAmountContract ==
  call = "calculateDiscountAmount" =>
    LET price == args.price
        pct == args.discountPercentage
    IN  /\ Threw(ret) <=> OutOfDomain(price, pct)
        /\ Threw(ret) => InvalidInput(ret)
        /\ ~Threw(ret) => ret.value = Div(Mul(price, pct), Hundred)
        /\ (~OutOfDomain(price, pct) /\ pct = Zero /\ ~IsNaN(price)) => ret = Return(Zero)
        /\ (~OutOfDomain(price, pct) /\ pct = Hundred) => ret = Return(price)

C1_Witness ==
  /\ call = "calculateDiscountAmount"
  /\ args.price = R(999, 100)
  /\ args.discountPercentage = Hundred
  /\ ret = Return(R(999, 100))

\* C2: calculateFinalPrice(price, pct) fails on exactly the inputs on which
\* calculateDiscountAmount fails, with the same failure; for price >= 0 and pct
\* in [0,100] it returns price - calculateDiscountAmount(price, pct), so the
\* discount amount and the final price add up to the price.
C2_FinalPriceContract ==
  call = "calculateFinalPrice" =>
    LET price == args.price
        pct == args.discountPercentage
        discount == calculateDiscountAmount(price, pct)
    IN  /\ Threw(ret) <=> Threw(discount)
        /\ Threw(discount) => ret = discount
        /\ ~Threw(discount) => ret = Return(Sub(price, discount.value))
        /\ (Le(Zero, price) /\ Le(Zero, pct) /\ Le(pct, Hundred)) =>
             /\ ~Threw(ret)
             /\ Add(discount.value, ret.value) = price

C2_Witness ==
  /\ call = "calculateFinalPrice"
  /\ args.price = R(999, 100)
  /\ args.discountPercentage = R(25, 2)
  /\ ~Threw(ret)
  /\ Lt(Zero, ret.value) /\ Lt(ret.value, args.price)

\* C3: getTaxRate(category) is total and case-insensitive: 0.03 for every case
\* variation of "groceries", 0.0475 for every other category string,
\* unrecognized ones included; it never fails.
C3_TaxRateLookup ==
  call = "getTaxRate" =>
    /\ ~Threw(ret)
    /\ ret.value = IF IsCaseVariationOf(args.category, <<"g","r","o","c","e","r","i","e","s">>)
                   THEN R(3, 100) ELSE R(475, 10000)

C3_Witness ==
  /\ call = "getTaxRate"
  /\ args.category = <<"G","r","O","c","E","r","I","e","S">>
  /\ ret = Return(R(3, 100))

\* C4: calculateTax(price, category) fails with InvalidInput exactly when
\* price < 0, and for price >= 0 returns price * getTaxRate(category): the rate
\* used inside calculateTax is the rate getTaxRate reports.
C4_TaxAmountContract ==
  call = "calculateTax" =>
    /\ Threw(ret) <=> Lt(args.price, Zero)
    /\ Threw(ret) => InvalidInput(ret)
    /\ ~Threw(ret) => ret.value = Mul(args.price, getTaxRate(args.category).value)

C4_Witness ==
  /\ call = "calculateTax"
  /\ args.category = <<"G","R","O","C","E","R","I","E","S">>
  /\ args.price = R(100, 1)
  /\ ret = Return(R(3, 1))

\* C5: calculatePriceWithTax(price, category) returns price + calculateTax(price,
\* category) for the value passed in, applies no discount itself, and fails
\* with InvalidInput whenever calculateTax fails (price < 0).
C5_PriceWithTaxContract ==
  call = "calculatePriceWithTax" =>
    LET tax == calculateTax(args.price, args.category)
    IN  /\ Threw(ret) <=> Lt(args.price, Zero)
        /\ Threw(tax) => ret = tax /\ InvalidInput(ret)
        /\ ~Threw(tax) => ret = Return(Add(args.price, tax.value))

C5_Witness ==
  /\ call = "calculatePriceWithTax"
  /\ args.price = R(100, 1)
  /\ args.discountPercentage = R(20, 1)
  /\ args.category = Electronics
  /\ ret = Return(R(10475, 100))

\* C6 as stated: for every record, records with price < 0 or discountPercentage
\* outside [0,100] included, the outcome of Product.getPriceWithDiscount()
\* equals the outcome of calculateFinalPrice(price, discountPercentage).
C6_DelegatesToFinalPrice ==
  call = "getPriceWithDiscount" =>
    ret = calculateFinalPrice(args.price, args.discountPercentage)

\* C6 amended: getPriceWithDiscount() never fails and returns
\* price - price * (discountPercentage / 100); it agrees with calculateFinalPrice
\* exactly on the records calculateFinalPrice accepts, and returns a value on
\* the records (price < 0 or discountPercentage outside [0,100]) on which
\* calculateFinalPrice fails with InvalidInput.
C6_UnvalidatedFinalPrice ==
  call = "getPriceWithDiscount" =>
    LET price == args.price
        pct == args.discountPercentage
        final == calculateFinalPrice(price, pct)
    IN  /\ ret = Return(Sub(price, Mul(price, Div(pct, Hundred))))
        /\ ~OutOfDomain(price, pct) => ret = final
        /\ OutOfDomain(price, pct) => InvalidInput(final) /\ ret # final

C6_Witness ==
  /\ call = "getPriceWithDiscount"
  /\ args.price = R(-1, 1)
  /\ args.discountPercentage = R(20, 1)
  /\ ret = Return(R(-4, 5))

-----------------------------------------------------------------------------
(* Properties of the Catalog Client (SpecFetch) *)

Settled == api.pc = "settled"
GotResponse == Settled /\ ~Threw(api.net)
FailedAs(name) == Threw(api.result) /\ api.result.error.name = name

\* s occurs in message as a run of consecutive elements
Contains(message, s) ==
  \E i \in 0..(Len(message) - Len(s)) : SubSeq(message, i + 1, i + Len(s)) = s

\* C7: in each of the four operations a non-success HTTP response surfaces as an
\* APIError carrying that response's status code, a transport-level failure of
\* the request as a NetworkError, any other failure as an APIError without a
\* status code, and an APIError raised inside the operation reaches the caller
\* unchanged.
C7_ErrorClassification ==
  Settled =>
    /\ Threw(api.net) => FailedAs("NetworkError")
    /\ (GotResponse /\ ~Ok(api.net.value)) =>
         /\ FailedAs("APIError")
         /\ api.result.error.statusCode = {api.net.value.status}
    /\ (GotResponse /\ Ok(api.net.value) /\ Threw(api.result)) =>
         /\ FailedAs("APIError")
         /\ api.result.error.statusCode = {}

\* C8: a not-found (404) answer to fetchProductById(id) or
\* fetchProductsByCategory(category, limit) fails the operation with an APIError
\* whose status code is 404 and whose message names the missing id or
\* category, never with a status-less APIError or a NetworkError.
C8_NotFound ==
  (GotResponse /\ api.net.value.status = 404
     /\ api.op \in {"fetchProductById", "fetchProductsByCategory"}) =>
    /\ FailedAs("APIError")
    /\ api.result.error.statusCode = {404}
    /\ Contains(api.result.error.message,
                IF api.op = "fetchProductById" THEN NumToString(api.id) ELSE api.text)

C8_Witness ==
  /\ GotResponse
  /\ api.op = "fetchProductById"
  /\ api.id = 12
  /\ api.net.value.status = 404
  /\ FailedAs("APIError")
  /\ api.result.error.statusCode = {404}

\* C9: a fetch operation fails with NetworkError only when the request could not
\* reach the service: whenever the remote returned a response, whatever its
\* status and body, the operation does not fail with NetworkError.
C9_NetworkErrorOnlyWhenUnreachable ==
  GotResponse => ~FailedAs("NetworkError")

-----------------------------------------------------------------------------
(* Properties of productManagement (Spec) *)

\* the record makes displayDetails or the pricing step fail
RecordFails(p) ==
  \/ p.price = Undefined
  \/ Lt(p.price, Zero)
  \/ Lt(p.discountPercentage, Zero)
  \/ Gt(p.discountPercentage, Hundred)

\* the fetch failed, or the response carried no products array, or a null record
BatchFails ==
  /\ Settled
  /\ \/ Threw(api.result)
     \/ api.result.value = <<>>
     \/ \E j \in DOMAIN api.result.value[1] : api.result.value[1][j].isNull

\* the batch the successful fetch returned
Fetched == IF Settled /\ ~BatchFails THEN api.result.value[1] ELSE <<>>

SomethingFails == BatchFails \/ \E j \in DOMAIN Fetched : RecordFails(Fetched[j])

\* C10: the first failure (of the fetch, of record construction, of a record's
\* display or pricing step) aborts the whole batch: no record after the failing
\* one is displayed or priced, the failing record is not skipped in favour of
\* later ones, handleError is invoked exactly once producing a single message,
\* and the run then ends.
C10_FirstFailureAbortsBatch ==
  /\ \A i \in DOMAIN out :
       out[i].k > 0 =>
         /\ ~BatchFails
         /\ \A j \in 1..(out[i].k - 1) : ~RecordFails(Fetched[j])
         /\ out[i].line = "-" => ~RecordFails(Fetched[out[i].k])
  /\ Len(errOut) <= 1
  /\ pc = "done" =>
       /\ Len(errOut) = IF SomethingFails THEN 1 ELSE 0
       /\ ~ENABLED Next

C10_Witness ==
  /\ pc = "done"
  /\ Len(products) = 2
  /\ ~RecordFails(products[1])
  /\ Lt(products[2].price, Zero)
  /\ Len(errOut) = 1
  /\ errOut[1].tag = "Error"
  /\ \E i \in DOMAIN out : out[i].k = 1 /\ out[i].line = "Total Price (with tax)"
  /\ \E i \in DOMAIN out : out[i].k = 2 /\ out[i].line = "Price After Discount"

-----------------------------------------------------------------------------
(* Properties of the requests issued (SpecSession) *)

\* C11: no retries: every invocation of a Catalog Client operation issues
\* exactly one request and, when that request fails or is answered with a
\* non-success status, ends with an error without issuing a second request; a
\* run of productManagement issues exactly one request in total.
C11_NoRetries ==
  [][ /\ (api.pc # "awaitFetch" /\ api'.pc = "awaitFetch") =>
           /\ Len(requests') = Len(requests) + 1
           /\ SubSeq(requests', 1, Len(requests)) = requests
      /\ requests' # requests => (api.pc # "awaitFetch" /\ api'.pc = "awaitFetch")
      /\ api.pc = "awaitFetch" =>
           /\ api'.pc = "settled"
           /\ requests' = requests
           /\ (Threw(api'.net) \/ ~Ok(api'.net.value)) => Threw(api'.result)
      /\ (pc = "start" /\ pc' # "start") => Len(requests') = Len(requests) + 1
      /\ pc # "start" => requests' = requests
    ]_vars

C11_Witness ==
  /\ pc = "done"
  /\ Len(requests) = 1
  /\ GotResponse
  /\ api.net.value.status = 500
  /\ FailedAs("APIError")
  /\ Len(errOut) = 1

-----------------------------------------------------------------------------
(* Properties of the rendered amounts (Spec) *)

\* what the lines with this label about record k show
Rendered(label, k) ==
  { out[i].val : i \in { j \in DOMAIN out : out[j].line = label /\ out[j].k = k } }

\* the pricing of record k was carried through to its closing separator
Priced(k) == \E i \in DOMAIN out : out[i].line = "-" /\ out[i].k = k

WellFormed(p) ==
  /\ Le(Zero, p.price)
  /\ Le(Zero, p.discountPercentage)
  /\ Le(p.discountPercentage, Hundred)

\* x as shown with two fractional digits
Shown(x) == <<toFixed2(x).value>>

\* C12: for every well-formed record productManagement applies discount, then
\* tax: the tax amount and the total it renders are the tax on the discounted
\* price and the discounted price plus that tax, never computed on the original
\* price; price=100, discount=20, electronics gives 20.00 / 80.00 / 3.80 / 83.80
\* and price=50, discount=0, groceries gives 50.00 / 1.50 / 51.50.
C12_DiscountThenTax ==
  \A k \in DOMAIN products :
    WellFormed(products[k]) =>
      LET p == products[k]
          discount == Div(Mul(p.price, p.discountPercentage), Hundred)
          final == Sub(p.price, discount)
          rate == IF IsCaseVariationOf(p.category, <<"g","r","o","c","e","r","i","e","s">>)
                  THEN R(3, 100) ELSE R(475, 10000)
          tax == Mul(final, rate)
          Only(x) == IF Priced(k) THEN {Shown(x)} ELSE {}
      IN  /\ calculateFinalPrice(p.price, p.discountPercentage) = Return(final)
          /\ Rendered("Discount Savings", k) = Only(discount)
          /\ Rendered("Final Price (after discount)", k) = Only(final)
          /\ Rendered("Tax Amount", k) = Only(tax)
          /\ Rendered("Total Price (with tax)", k) = Only(Add(final, tax))
          /\ idx > k => Priced(k)

C12_Witness ==
  /\ pc = "done"
  /\ Len(products) = 2
  /\ products[1].price = R(100, 1) /\ products[1].discountPercentage = R(20, 1)
  /\ products[1].category = Electronics
  /\ Rendered("Discount Savings", 1) = {<<R(2000, 100)>>}
  /\ Rendered("Final Price (after discount)", 1) = {<<R(8000, 100)>>}
  /\ Rendered("Tax Amount", 1) = {<<R(380, 100)>>}
  /\ Rendered("Total Price (with tax)", 1) = {<<R(8380, 100)>>}
  /\ products[2].price = R(50, 1) /\ products[2].discountPercentage = Zero
  /\ products[2].category = GROCERY_CATEGORY
  /\ Rendered("Final Price (after discount)", 2) = {<<R(5000, 100)>>}
  /\ Rendered("Tax Amount", 2) = {<<R(150, 100)>>}
  /\ Rendered("Total Price (with tax)", 2) = {<<R(5150, 100)>>}

-----------------------------------------------------------------------------
(* Properties of the error handler (SpecErrors) *)

\* C13: handleError reports every error under exactly one category and never
\* throws: an APIError as a remote-service failure (with its status code when
\* it carries one), a NetworkError as a connectivity failure, any other Error
\* (the InvalidInput of the pricing functions included) as a generic failure,
\* and a thrown value that is no Error as unknown; no remote-service or
\* connectivity failure is reported as generic.
C13_OneCategoryPerError ==
  call = "handleError" =>
    /\ ret = Return(Undefined)
    /\ Len(errOut) = 1
    /\ LET reported == errOut[1]
       IN  /\ args.name = "APIError" =>
                 /\ reported.tag = "API Error"
                 /\ reported.status = args.statusCode
                 /\ reported.message = args.message
           /\ args.name = "NetworkError" =>
                 reported.tag = "Network Error" /\ reported.message = args.message
           /\ args.name \in {"Error", "TypeError", "SyntaxError"} =>
                 reported.tag = "Error" /\ reported.message = args.message
           /\ args.name = "NonError" => reported.tag = "Unknown Error"
           /\ reported.tag = "Error" => args.name \notin {"APIError", "NetworkError"}
           /\ reported.tag # "API Error" => reported.status = {}

C13_Witness ==
  /\ call = "handleError"
  /\ args = APIError(<<"Failed to fetch products: ", "Not Found">>, {404})
  /\ errOut = << [tag |-> "API Error", status |-> {404},
                  message |-> <<"Failed to fetch products: ", "Not Found">>] >>

-----------------------------------------------------------------------------
(* Ranges of the derived amounts (SpecPricing) *)

InDomain(a) ==
  /\ Le(Zero, a.price)
  /\ Le(Zero, a.discountPercentage)
  /\ Le(a.discountPercentage, Hundred)

\* C14: for every price >= 0 and discountPercentage in [0,100] the derived
\* amounts stay within range: 0 <= calculateDiscountAmount <= price,
\* 0 <= calculateFinalPrice <= price, and for every category
\* calculatePriceWithTax(finalPrice, category) >= finalPrice >= 0, so that no
\* amount derived from a valid record is negative.
C14_AmountsWithinRange ==
  /\ (call = "calculateDiscountAmount" /\ InDomain(args)) =>
       /\ ~Threw(ret)
       /\ Le(Zero, ret.value) /\ Le(ret.value, args.price)
  /\ (call = "calculateFinalPrice" /\ InDomain(args)) =>
       /\ ~Threw(ret)
       /\ Le(Zero, ret.value) /\ Le(ret.value, args.price)
       /\ \A category \in Categories :
            LET total == calculatePriceWithTax(ret.value, category)
            IN  ~Threw(total) /\ Le(ret.value, total.value)
  /\ (call = "calculatePriceWithTax" /\ Le(Zero, args.price)) =>
       ~Threw(ret) /\ Le(args.price, ret.value)

C14_Witness ==
  /\ call = "calculateFinalPrice"
  /\ args.price = R(100, 1)
  /\ args.discountPercentage = R(20, 1)
  /\ args.category = GROCERY_CATEGORY
  /\ ret = Return(R(80, 1))
  /\ calculatePriceWithTax(ret.value, args.category) = Return(R(824, 10))

-----------------------------------------------------------------------------
(* Properties of the output at abort (Spec) *)

DetailsBlock ==
  << "=", "Product", "=", "ID", "Brand", "Category", "Description", "Price",
     "Discount", "Price After Discount", "Rating", "Stock", "=" >>

PricingBlock ==
  << "Discount Savings", "Final Price (after discount)", "Tax Information",
     "Category", "Tax Rate", "Tax Amount", "Total Price (with tax)", "-" >>

\* the labels of the lines written about record k, in the order written
LabelsOf(k) ==
  LET lines == SelectSeq(out, LAMBDA l : l.k = k)
  IN  [i \in 1..Len(lines) |-> lines[i].line]

\* record k is the first with price < 0 or discountPercentage outside [0,100]
FirstInvalid(k) ==
  /\ OutOfDomain(products[k].price, products[k].discountPercentage)
  /\ \A j \in 1..(k - 1) : WellFormed(products[j])

\* C15: records are rendered strictly in response order, and when record k is
\* the first with price < 0 or discountPercentage outside [0,100], the output
\* at abort is the complete rendering (details, discount, tax, total) of
\* records 1..k-1, then record k's whole details block, whose 'Price After
\* Discount' line holds the unvalidated price - price * pct / 100, and only
\* then the single error message: the invalid record's details are written
\* before InvalidInput is raised.
C15_OutputAtAbort ==
  /\ \A i, j \in DOMAIN out : i < j => out[i].k <= out[j].k
  /\ \A k \in DOMAIN products : products[k].id = productsData[1][k].id
  /\ \A k \in DOMAIN products :
       (FirstInvalid(k) /\ pc \in {"catch", "done"}) =>
         LET p == products[k]
             unvalidated == Sub(p.price, Div(Mul(p.price, p.discountPercentage), Hundred))
             failure == calculateFinalPrice(p.price, p.discountPercentage)
         IN  /\ \A j \in 1..(k - 1) : LabelsOf(j) = DetailsBlock \o PricingBlock
             /\ LabelsOf(k) = DetailsBlock
             /\ out[Len(out)].k = k
             /\ Rendered("Price After Discount", k) = {Shown(unvalidated)}
             /\ InvalidInput(failure)
             /\ thrown = <<failure.error>>
             /\ pc = "catch" => errOut = <<>>
             /\ pc = "done" =>
                  errOut = << [tag |-> "Error", status |-> {},
                               message |-> failure.error.message] >>

C15_Witness ==
  /\ pc = "catch"
  /\ Len(products) = 2
  /\ WellFormed(products[1])
  /\ products[2].price = R(999, 100) /\ products[2].discountPercentage = R(101, 1)
  /\ LabelsOf(1) = DetailsBlock \o PricingBlock
  /\ LabelsOf(2) = DetailsBlock
  /\ Rendered("Price After Discount", 2) = {<<R(-10, 100)>>}
  /\ errOut = <<>>

====
